---- MODULE Spec2Model ----
(***************************************************************************)
(* A model of bboltkv (src/bboltkv.go): a gob-encoding key-value facade    *)
(* over one bucket of a bbolt file.                                        *)
(*                                                                         *)
(* The facade's own code is lines 35-131 of src/bboltkv.go.  The calls it  *)
(* makes into go.etcd.io/bbolt (Open/flock, Update, View, Cursor.Seek,     *)
(* Bucket.Put, Cursor.Delete, CreateBucketIfNotExists, Close) and into     *)
(* encoding/gob (Encode, Decode) are modelled by what those libraries do,  *)
(* at the line of the call.                                                *)
(***************************************************************************)
EXTENDS Integers, Sequences, FiniteSets, TLC

VARIABLES
    file,   \* the backing file: bucket name -> sorted sequence of [k, v] entries
    dbs,    \* the *bbolt.DB handles created so far, in order of creation
    th,     \* per goroutine: the call it is inside, if any
    ghost,  \* history: bucket -> key -> the last committed mutation of that key
    last    \* the most recently returned call and what it returned

vars == <<file, dbs, th, ghost, last>>

----------------------------------------------------------------------------
(* Bounds of the model *)

\* how many times bbolt.Open may acquire the file (handles ever created)
MaxOpens == 2
\* integers carried by values are 0..MaxInt
MaxInt == 1

Threads == {"g1", "g2"}

\* bucket names passed to Open; "" is the empty name
BucketNames == {"", "a", "b"}
\* the names Spec opens
OneBucket == {"", "a"}

\* keys are byte strings; <<>> is the empty string, <<1>> a proper prefix of <<1, 1>>
Keys == {<<>>, <<1>>, <<1, 1>>}

----------------------------------------------------------------------------
(* Go values, and encoding/gob *)

Nil == [t |-> "nil", v |-> 0]
\* a value gob cannot serialize (a channel)
Chan == [t |-> "chan", v |-> 0]
\* an int
IntV(n) == [t |-> "int", v |-> n]
\* a struct{A int}
StructV(n) == [t |-> "struct", v |-> n]

\* the values callers store: the int 0 and every struct{A int}
Supported == {IntV(0)} \cup {StructV(n) : n \in 0..MaxInt}
PutValues == Supported \cup {Nil, Chan}
\* what Get is handed: nil, or a pointer to a variable holding some value
Destinations == {Nil} \cup {IntV(n) : n \in 0..MaxInt} \cup {StructV(n) : n \in 0..MaxInt}
\* a freshly declared variable of the shape of v
Zero(v) == [t |-> v.t, v |-> 0]

\* bytes some other writer stored that are no gob stream
Garbage == [t |-> "raw", f |-> <<>>]

\* gob.Encoder.Encode: a top-level non-struct value is always transmitted;
\* a struct transmits only its fields that are not the zero value
GobEncode(v) ==
    IF v.t = "int" THEN [t |-> "int", f |-> <<v.v>>]
    ELSE [t |-> "struct", f |-> IF v.v = 0 THEN <<>> ELSE <<v.v>>]

\* gob.Decoder.Decode into the variable dest points to: a type mismatch or a
\* malformed stream is an error; the fields the stream carries are stored,
\* every other field of the destination keeps what it held
GobDecode(bytes, dest) ==
    IF bytes.t # dest.t THEN [err |-> "ErrDecode", out |-> dest]
    ELSE IF bytes.t = "int" THEN [err |-> "nil", out |-> IntV(bytes.f[1])]
    ELSE [err |-> "nil", out |-> IF Len(bytes.f) = 0 THEN dest ELSE StructV(bytes.f[1])]

----------------------------------------------------------------------------
(* bbolt: a bucket is a sequence of entries sorted by key, bytes.Compare order *)

RECURSIVE KeyLess(_, _)
KeyLess(a, b) ==
    IF Len(b) = 0 THEN FALSE
    ELSE IF Len(a) = 0 THEN TRUE
    ELSE IF Head(a) # Head(b) THEN Head(a) < Head(b)
    ELSE KeyLess(Tail(a), Tail(b))

\* Cursor.Seek: the index of the first entry whose key is >= key, 0 for (nil, nil)
Seek(b, key) ==
    LET ge == {i \in 1..Len(b) : ~KeyLess(b[i].k, key)}
    IN  IF ge = {} THEN 0 ELSE CHOOSE i \in ge : \A j \in ge : i <= j

\* ExactMatch with the key comparison dropped: a fault C3 must detect
ExactMatchNoCompare(b, key) == Seek(b, key) # 0

\* ExactMatch that accepts a found key the sought key is a prefix of: a fault
\* C13 must detect
ExactMatchPrefix(b, key) ==
    LET i == Seek(b, key)
    IN  i # 0 /\ Len(key) <= Len(b[i].k) /\ SubSeq(b[i].k, 1, Len(key)) = key

\* the test Get and Delete make on what Seek returned
ExactMatch(b, key) ==
    LET i == Seek(b, key) IN i # 0 /\ b[i].k = key

\* BucketPut that leaves an existing entry as it is: a fault C2 must detect
BucketPutKeepOld(b, key, bytes) ==
    IF Len(key) = 0 THEN [err |-> "ErrKeyRequired", b |-> b]
    ELSE LET i == Seek(b, key)
             e == [k |-> key, v |-> bytes]
         IN  [err |-> "nil",
              b |-> IF i = 0 THEN Append(b, e)
                    ELSE IF b[i].k = key THEN b
                    ELSE SubSeq(b, 1, i - 1) \o <<e>> \o SubSeq(b, i, Len(b))]

\* Bucket.Put inside a write transaction: rejects the empty key, replaces the
\* entry on an exact match, otherwise inserts at the seek position
BucketPut(b, key, bytes) ==
    IF Len(key) = 0 THEN [err |-> "ErrKeyRequired", b |-> b]
    ELSE LET i == Seek(b, key)
             e == [k |-> key, v |-> bytes]
         IN  [err |-> "nil",
              b |-> IF i = 0 THEN Append(b, e)
                    ELSE IF b[i].k = key THEN [b EXCEPT ![i] = e]
                    ELSE SubSeq(b, 1, i - 1) \o <<e>> \o SubSeq(b, i, Len(b))]

\* CursorDelete that drops everything from the cursor on: a fault C4 must detect
CursorDeleteTail(b, i) == SubSeq(b, 1, i - 1)

\* Cursor.Delete: removes the entry the cursor is on
CursorDelete(b, i) == SubSeq(b, 1, i - 1) \o SubSeq(b, i + 1, Len(b))

\* CreateBucketIfNotExists that creates an existing bucket anew: a fault C6
\* must detect
CreateBucketAlways(f, name) ==
    IF name = "" THEN [err |-> "ErrBucketNameRequired", f |-> f]
    ELSE [err |-> "nil", f |-> [n \in DOMAIN f \cup {name} |->
                                    IF n = name THEN <<>> ELSE f[n]]]

\* tx.CreateBucketIfNotExists: the empty name is refused, an existing bucket is kept
CreateBucketIfNotExists(f, name) ==
    IF name = "" THEN [err |-> "ErrBucketNameRequired", f |-> f]
    ELSE IF name \in DOMAIN f THEN [err |-> "nil", f |-> f]
    ELSE [err |-> "nil", f |-> [n \in DOMAIN f \cup {name} |->
                                    IF n = name THEN <<>> ELSE f[n]]]

----------------------------------------------------------------------------
(* State *)

NoKey == <<>>
NoBucket == <<>>
\* history entries: the key was never stored, was deleted, holds foreign
\* bytes, or holds the encoding of a Go value
Never == [t |-> "never", v |-> 0]
Deleted == [t |-> "deleted", v |-> 0]
Raw == [t |-> "raw", v |-> 0]
Present(g) == g.t \notin {"never", "deleted"}

Idle == [pc |-> "idle", db |-> 0, key |-> NoKey, val |-> Nil,
         work |-> NoBucket, err |-> "nil", pre |-> Never]

NoCall == [op |-> "none", key |-> NoKey, val |-> Nil,
           err |-> "nil", out |-> Nil, pre |-> Never]

Init ==
    /\ file = <<>>
    /\ dbs = <<>>
    /\ th = [t \in Threads |-> Idle]
    /\ ghost = [n \in BucketNames |-> [k \in Keys |-> Never]]
    /\ last = NoCall

\* the handles that hold the file lock
Holders == {d \in 1..Len(dbs) : dbs[d].opened}
\* the Stores callers hold and have not closed
OpenStores == {d \in 1..Len(dbs) : dbs[d].opened /\ dbs[d].store}
\* the goroutines inside a write transaction of db d (db.rwlock held)
Writers(d) == {t \in Threads : th[t].db = d /\ th[t].pc \in {"putTx", "delTx"}}
\* RWLockFree that never finds the lock held: a fault C11 must detect
RWLockFreeAlways(d) == TRUE

\* db.rwlock, taken by Begin(true): free when no write transaction of d is
\* in flight
RWLockFree(d) == Writers(d) = {}

\* the goroutines inside any call on db d
Inside(d) == {t \in Threads : th[t].db = d /\ th[t].pc # "idle"}

----------------------------------------------------------------------------
(* Open and Close *)

\* Flock that grants the lock whoever holds it: a fault C7 must detect
FlockAlways(holders) == "nil"

\* bbolt.Open's flock under Options.Timeout (50 ms, line 37): a non-blocking
\* attempt that is granted only when no other handle holds the file.  The
\* budget equals bbolt's retry interval, so a refused attempt ends the wait
\* with ErrTimeout
Flock(holders) == IF holders = {} THEN "nil" ELSE "ErrTimeout"

Open(t, name) ==
    /\ th[t].pc = "idle"
    /\ IF Flock(Holders) # "nil"
       THEN /\ last' = [NoCall EXCEPT !.op = "Open", !.err = Flock(Holders)]
            /\ UNCHANGED <<file, dbs>>
       ELSE /\ Len(dbs) < MaxOpens
            /\ LET r == CreateBucketIfNotExists(file, name)
               IN  /\ file' = r.f
                   \* on an error the handle is not closed: it keeps the lock
                   /\ dbs' = Append(dbs, [bucket |-> name, opened |-> TRUE,
                                          store |-> r.err = "nil"])
                   /\ last' = [NoCall EXCEPT !.op = "Open", !.err = r.err]
    /\ UNCHANGED <<th, ghost>>

\* Close that gives the Store up but keeps the file lock: a fault C12 must
\* detect
CloseKeepsLock(t, d) ==
    /\ th[t].pc = "idle"
    /\ d \in OpenStores
    /\ Inside(d) = {}
    /\ dbs' = [dbs EXCEPT ![d].store = FALSE]
    /\ last' = [NoCall EXCEPT !.op = "Close"]
    /\ UNCHANGED <<file, th, ghost>>

\* db.Close waits for every transaction of the handle to end; callers keep
\* Close apart from calls in flight
Close(t, d) ==
    /\ th[t].pc = "idle"
    /\ d \in OpenStores
    /\ Inside(d) = {}
    /\ dbs' = [dbs EXCEPT ![d].opened = FALSE]
    /\ last' = [NoCall EXCEPT !.op = "Close"]
    /\ UNCHANGED <<file, th, ghost>>

----------------------------------------------------------------------------
(* Transactions *)

\* Commit that writes the transaction's copy over every bucket of the file: a
\* fault C15 must detect
CommitAll(f, n, work) == [m \in DOMAIN f |-> work]

\* tx.Commit: the transaction's copy becomes the bucket
Commit(f, n, work) == [f EXCEPT ![n] = work]
\* Rollback that keeps the transaction's copy: a fault C10 must detect
RollbackKeeps(f, n, work) == [f EXCEPT ![n] = work]

\* tx.Rollback: the transaction's copy is dropped
Rollback(f, n, work) == f

\* db.Update's end: Commit when the function returned nil, Rollback otherwise
UpdateEnd(t, mutation) ==
    LET n == dbs[th[t].db].bucket
    IN  /\ IF th[t].err = "nil"
           THEN /\ file' = Commit(file, n, th[t].work)
                /\ ghost' = [ghost EXCEPT ![n][th[t].key] = mutation]
           ELSE /\ file' = Rollback(file, n, th[t].work)
                /\ UNCHANGED ghost
        /\ th' = [th EXCEPT ![t] = Idle]
        /\ UNCHANGED dbs

----------------------------------------------------------------------------
(* Put *)

\* PutPre without the nil check, the encoder refusing nil: a fault C5 must detect
PutPreNoNilCheck(value) == IF value \notin Supported THEN "ErrEncode" ELSE "nil"

\* PutPre that drops the encoder's error: a fault C16 must detect
PutPreIgnoreEncode(value) == IF value = Nil THEN "ErrBadValue" ELSE "nil"

\* lines 66-72: the nil check, then the gob encoding
PutPre(value) ==
    IF value = Nil THEN "ErrBadValue"
    ELSE IF value \notin Supported THEN "ErrEncode"
    ELSE "nil"

\* Put returns before db.Update is reached
PutReject(t, d, key, value) ==
    /\ th[t].pc = "idle"
    /\ d \in OpenStores
    /\ PutPre(value) # "nil"
    /\ last' = [NoCall EXCEPT !.op = "Put", !.key = key, !.val = value,
                    !.err = PutPre(value), !.pre = ghost[dbs[d].bucket][key]]
    /\ UNCHANGED <<file, dbs, th, ghost>>

\* db.Update's Begin(true) takes db.rwlock, blocking while another write
\* transaction holds it; then the function runs on the transaction's own copy
PutBegin(t, d, key, value) ==
    /\ th[t].pc = "idle"
    /\ d \in OpenStores
    /\ PutPre(value) = "nil"
    /\ RWLockFree(d)
    /\ LET r == BucketPut(file[dbs[d].bucket], key, GobEncode(value))
       IN  th' = [th EXCEPT ![t] = [pc |-> "putTx", db |-> d, key |-> key,
                        val |-> value, work |-> r.b, err |-> r.err,
                        pre |-> ghost[dbs[d].bucket][key]]]
    /\ UNCHANGED <<file, dbs, ghost, last>>

PutEnd(t) ==
    /\ th[t].pc = "putTx"
    /\ UpdateEnd(t, th[t].val)
    /\ last' = [NoCall EXCEPT !.op = "Put", !.key = th[t].key, !.val = th[t].val,
                    !.err = th[t].err, !.pre = th[t].pre]

\* tx.Commit fails (the disk refuses the write): the transaction is rolled
\* back and db.Update returns the error
PutEndFail(t) ==
    /\ th[t].pc = "putTx"
    /\ th[t].err = "nil"
    /\ file' = Rollback(file, dbs[th[t].db].bucket, th[t].work)
    /\ th' = [th EXCEPT ![t] = Idle]
    /\ last' = [NoCall EXCEPT !.op = "Put", !.key = th[t].key, !.val = th[t].val,
                    !.err = "ErrIO", !.pre = th[t].pre]
    /\ UNCHANGED <<dbs, ghost>>

----------------------------------------------------------------------------
(* Get *)

\* GetBody that decodes the stored bytes before the nil test: a fault C8 must
\* detect
GetBodyDecodeFirst(b, key, dest) ==
    IF ~ExactMatch(b, key) THEN [err |-> "ErrNotFound", out |-> dest]
    ELSE IF b[Seek(b, key)].v = Garbage THEN [err |-> "ErrDecode", out |-> dest]
    ELSE IF dest = Nil THEN [err |-> "nil", out |-> dest]
    ELSE GobDecode(b[Seek(b, key)].v, dest)

\* lines 101-109, on the bucket as the read transaction sees it
GetBody(b, key, dest) ==
    IF ~ExactMatch(b, key) THEN [err |-> "ErrNotFound", out |-> dest]
    ELSE IF dest = Nil THEN [err |-> "nil", out |-> dest]
    ELSE GobDecode(b[Seek(b, key)].v, dest)

\* db.View: Begin(false) fixes the committed root the transaction reads; a
\* write transaction's copy is not part of it
Get(t, d, key, dest) ==
    /\ th[t].pc = "idle"
    /\ d \in OpenStores
    /\ LET r == GetBody(file[dbs[d].bucket], key, dest)
       IN  last' = [NoCall EXCEPT !.op = "Get", !.key = key, !.val = dest,
                        !.err = r.err, !.out = r.out,
                        !.pre = ghost[dbs[d].bucket][key]]
    /\ UNCHANGED <<file, dbs, th, ghost>>

----------------------------------------------------------------------------
(* Delete *)

\* lines 119-124
DeleteBody(b, key) ==
    IF ~ExactMatch(b, key) THEN [err |-> "ErrNotFound", b |-> b]
    ELSE [err |-> "nil", b |-> CursorDelete(b, Seek(b, key))]

DeleteBegin(t, d, key) ==
    /\ th[t].pc = "idle"
    /\ d \in OpenStores
    /\ RWLockFree(d)
    /\ LET r == DeleteBody(file[dbs[d].bucket], key)
       IN  th' = [th EXCEPT ![t] = [pc |-> "delTx", db |-> d, key |-> key,
                        val |-> Nil, work |-> r.b, err |-> r.err,
                        pre |-> ghost[dbs[d].bucket][key]]]
    /\ UNCHANGED <<file, dbs, ghost, last>>

DeleteEnd(t) ==
    /\ th[t].pc = "delTx"
    /\ UpdateEnd(t, Deleted)
    /\ last' = [NoCall EXCEPT !.op = "Delete", !.key = th[t].key,
                    !.err = th[t].err, !.pre = th[t].pre]

----------------------------------------------------------------------------
(* Writers seen while they wait for db.rwlock *)

\* Put has encoded the value and is inside db.Update's Begin(true), at
\* db.rwlock.Lock()
PutWait(t, d, key, value) ==
    /\ th[t].pc = "idle"
    /\ d \in OpenStores
    /\ PutPre(value) = "nil"
    /\ th' = [th EXCEPT ![t] = [Idle EXCEPT !.pc = "putWait", !.db = d,
                    !.key = key, !.val = value]]
    /\ UNCHANGED <<file, dbs, ghost, last>>

\* the lock is granted and the function of Put's transaction runs
PutLock(t) ==
    /\ th[t].pc = "putWait"
    /\ RWLockFree(th[t].db)
    /\ LET n == dbs[th[t].db].bucket
           r == BucketPut(file[n], th[t].key, GobEncode(th[t].val))
       IN  th' = [th EXCEPT ![t].pc = "putTx", ![t].work = r.b, ![t].err = r.err,
                            ![t].pre = ghost[n][th[t].key]]
    /\ UNCHANGED <<file, dbs, ghost, last>>

\* Delete is inside db.Update's Begin(true), at db.rwlock.Lock()
DeleteWait(t, d, key) ==
    /\ th[t].pc = "idle"
    /\ d \in OpenStores
    /\ th' = [th EXCEPT ![t] = [Idle EXCEPT !.pc = "delWait", !.db = d, !.key = key]]
    /\ UNCHANGED <<file, dbs, ghost, last>>

\* the lock is granted and the function of Delete's transaction runs
DeleteLock(t) ==
    /\ th[t].pc = "delWait"
    /\ RWLockFree(th[t].db)
    /\ LET n == dbs[th[t].db].bucket
           r == DeleteBody(file[n], th[t].key)
       IN  th' = [th EXCEPT ![t].pc = "delTx", ![t].work = r.b, ![t].err = r.err,
                            ![t].pre = ghost[n][th[t].key]]
    /\ UNCHANGED <<file, dbs, ghost, last>>

----------------------------------------------------------------------------
(* The escape hatch: a caller's own transaction on GetDb() *)

\* db.Update storing bytes that are no gob stream under key
RawPut(t, d, key) ==
    /\ th[t].pc = "idle"
    /\ d \in OpenStores
    /\ RWLockFree(d)
    /\ LET n == dbs[d].bucket
           r == BucketPut(file[n], key, Garbage)
       IN  /\ r.err = "nil"
           /\ file' = Commit(file, n, r.b)
           /\ ghost' = [ghost EXCEPT ![n][key] = Raw]
    /\ UNCHANGED <<dbs, th, last>>

----------------------------------------------------------------------------
(* Specifications *)

\* every call, with its inputs drawn from the given sets; writers are the
\* handles through which callers mutate
Step(names, keys, values, dests, writers) ==
    \/ \E t \in Threads, n \in names : Open(t, n)
    \/ \E t \in Threads, d \in 1..MaxOpens : Close(t, d)
    \/ \E t \in Threads, d \in writers, k \in keys, v \in values : PutReject(t, d, k, v)
    \/ \E t \in Threads, d \in writers, k \in keys, v \in values : PutBegin(t, d, k, v)
    \/ \E t \in Threads : PutEnd(t)
    \/ \E t \in Threads, d \in 1..MaxOpens, k \in keys, v \in dests : Get(t, d, k, v)
    \/ \E t \in Threads, d \in writers, k \in keys : DeleteBegin(t, d, k)
    \/ \E t \in Threads : DeleteEnd(t)
    \/ \E t \in Threads, d \in writers, k \in keys : RawPut(t, d, k)

Next == Step(OneBucket, Keys, PutValues, Destinations, 1..MaxOpens)

Spec == Init /\ [][Next]_vars

\* the same calls on a disk that may refuse a commit
NextFault == Next \/ \E t \in Threads : PutEndFail(t)

SpecFault == Init /\ [][NextFault]_vars

\* callers that mutate only through the first Store they open and read
\* through any
NextReopen == Step(OneBucket, Keys, PutValues, Destinations, {1})

SpecReopen == Init /\ [][NextReopen]_vars

\* Stores opened one after the other on two buckets of the file
TwoBuckets == {"a", "b"}
BucketKeys == {<<1>>, <<1, 1>>}
BucketValues == {Chan, StructV(1)}
BucketDests == {Nil, StructV(0)}

NextBuckets == Step(TwoBuckets, BucketKeys, BucketValues, BucketDests, 1..MaxOpens)

SpecBuckets == Init /\ [][NextBuckets]_vars

\* concurrent writers of one Store, each seen from the moment it asks for
\* db.rwlock
WriterKeys == {<<1>>, <<1, 1>>}
WriterValues == {StructV(1)}

NextWriters ==
    \/ \E t \in Threads : Open(t, "a")
    \/ \E t \in Threads, d \in 1..MaxOpens : Close(t, d)
    \/ \E t \in Threads, d \in 1..MaxOpens, k \in WriterKeys, v \in WriterValues :
            PutWait(t, d, k, v)
    \/ \E t \in Threads : PutLock(t)
    \/ \E t \in Threads : PutEnd(t)
    \/ \E t \in Threads, d \in 1..MaxOpens, k \in WriterKeys : DeleteWait(t, d, k)
    \/ \E t \in Threads : DeleteLock(t)
    \/ \E t \in Threads : DeleteEnd(t)
    \/ \E t \in Threads, d \in 1..MaxOpens, k \in WriterKeys : Get(t, d, k, Nil)

\* a transaction that can end does end; sync.Mutex hands the lock to a
\* goroutine that keeps waiting for it (starvation mode)
FairWriters ==
    \A t \in Threads :
        /\ WF_vars(PutEnd(t)) /\ WF_vars(DeleteEnd(t))
        /\ SF_vars(PutLock(t)) /\ SF_vars(DeleteLock(t))

SpecWriters == Init /\ [][NextWriters]_vars /\ FairWriters

----------------------------------------------------------------------------
(* Helpers of the properties *)

EntrySet(b) == {b[i] : i \in 1..Len(b)}
\* the bucket a returned call's Store names, when one Store is open
Bucket(d) == file[dbs[d].bucket]
\* a Put, a Get or a Delete has just returned
Returned(op) == last' # last /\ last'.op = op

----------------------------------------------------------------------------
(* C1 *)

\* C1: a Put of any supported value under any key returns no error, and a
\* Get of a key whose last mutation was Put(k, V), into a destination of the
\* shape of V holding anything, returns no error and leaves V in it.
C1_RoundTrip ==
    /\ (last.op = "Put" /\ last.val \in Supported) => last.err = "nil"
    /\ (last.op = "Get" /\ last.pre \in Supported /\ last.val # Nil
            /\ last.val.t = last.pre.t)
        => (last.err = "nil" /\ last.out = last.pre)

----------------------------------------------------------------------------
(* C2 *)

\* C2: last write wins.  When the last committed mutation of k is Put(k, V),
\* a Get of k into a freshly declared variable of V's shape returns no error
\* and V, at the moment of the Get and in every later state until the next
\* mutation of k; and no bucket holds two entries with the same key.
C2_LastWriteWins ==
    /\ (last.op = "Get" /\ last.pre \in Supported /\ last.val = Zero(last.pre))
        => (last.err = "nil" /\ last.out = last.pre)
    /\ \A d \in OpenStores : \A k \in Keys :
        ghost[dbs[d].bucket][k] \in Supported
        => GetBody(Bucket(d), k, Zero(ghost[dbs[d].bucket][k]))
            = [err |-> "nil", out |-> ghost[dbs[d].bucket][k]]
    /\ \A n \in DOMAIN file : \A i, j \in 1..Len(file[n]) :
        file[n][i].k = file[n][j].k => i = j

\* a Put of struct{1} over struct{0} has committed, the bucket holds one entry
\* for the key, and a Get of it returns struct{1}
C2_Witness ==
    /\ last.op = "Put" /\ last.err = "nil"
    /\ last.pre = StructV(0) /\ last.val = StructV(1)
    /\ OpenStores # {}
    /\ \A d \in OpenStores :
        /\ ghost[dbs[d].bucket][last.key] = StructV(1)
        /\ Cardinality({i \in 1..Len(Bucket(d)) : Bucket(d)[i].k = last.key}) = 1
        /\ GetBody(Bucket(d), last.key, StructV(0)).out = StructV(1)

----------------------------------------------------------------------------
(* C3 *)

\* C3: a Get (with any destination, nil included) or a Delete of a key that
\* was never stored, or whose last committed mutation is a Delete, returns
\* ErrNotFound.
C3_MissingKey ==
    (last.op \in {"Get", "Delete"} /\ ~Present(last.pre))
        => last.err = "ErrNotFound"

\* a Delete of a key that was stored and then deleted returned ErrNotFound,
\* while a key sorting after it is stored
C3_Witness ==
    /\ last.op = "Delete" /\ last.pre = Deleted /\ last.err = "ErrNotFound"
    /\ last.key = <<1>>
    /\ \E d \in OpenStores : Len(Bucket(d)) = 1

----------------------------------------------------------------------------
(* C4 *)

\* C4: a Delete of a key that is present returns no error, and its commit
\* removes that key's entry and nothing else: afterwards a Get of the key
\* finds nothing, and every other entry of every bucket is as it was.
C4_DeleteOne ==
    [][\A t \in Threads :
        (th[t].pc = "delTx" /\ th'[t].pc = "idle" /\ Present(th[t].pre))
        => LET n == dbs[th[t].db].bucket
               k == th[t].key
           IN  /\ last'.op = "Delete" /\ last'.err = "nil"
               /\ GetBody(file'[n], k, Nil).err = "ErrNotFound"
               /\ EntrySet(file'[n]) = {e \in EntrySet(file[n]) : e.k # k}
               /\ Len(file'[n]) = Len(file[n]) - 1
               /\ DOMAIN file' = DOMAIN file
               /\ \A m \in DOMAIN file \ {n} : file'[m] = file[m]]_vars

\* a Delete of the first of two stored keys returned nil and the second is
\* still stored
C4_Witness ==
    /\ last.op = "Delete" /\ last.err = "nil" /\ last.key = <<1>>
    /\ \E d \in OpenStores :
        /\ Len(Bucket(d)) = 1
        /\ Bucket(d)[1].k = <<1, 1>>

----------------------------------------------------------------------------
(* C5 *)

\* C5: Put(k, nil) returns ErrBadValue, and the step that returns it starts
\* no transaction and changes neither the file nor any handle.
C5_BadValue ==
    /\ [](last.op = "Put" /\ last.val = Nil => last.err = "ErrBadValue")
    /\ [][(Returned("Put") /\ last'.val = Nil)
            => (last'.err = "ErrBadValue"
                /\ UNCHANGED <<file, dbs, th, ghost>>)]_vars

\* Put(k, nil) returned ErrBadValue for a key that holds a value, while the
\* other goroutine is inside a write transaction
C5_Witness ==
    /\ last.op = "Put" /\ last.val = Nil /\ last.err = "ErrBadValue"
    /\ last.pre = StructV(1)
    /\ \E d \in OpenStores :
        /\ Writers(d) # {}
        /\ GetBody(Bucket(d), last.key, StructV(0)).out = StructV(1)

----------------------------------------------------------------------------
(* C6 *)

\* C6: persistence (checked under SpecReopen, where every mutation goes
\* through the first Store, so that whatever a later Store reads was stored
\* before the first one was closed).  Through every Store opened after the
\* first, a Get of a key whose last committed mutation is Put(k, V) returns
\* V; and the steps that create or close a handle (Open with its
\* create-if-missing, Close) leave every existing bucket's entries unchanged.
C6_Persistence ==
    /\ [](\A d \in OpenStores : \A k \in Keys :
            (d > 1 /\ ghost[dbs[d].bucket][k] \in Supported)
            => GetBody(Bucket(d), k, Zero(ghost[dbs[d].bucket][k]))
                = [err |-> "nil", out |-> ghost[dbs[d].bucket][k]])
    /\ [](last.op = "Get" /\ 1 \notin OpenStores /\ last.pre \in Supported
            /\ last.val = Zero(last.pre)
            => last.err = "nil" /\ last.out = last.pre)
    /\ [][dbs' # dbs
            => \A n \in DOMAIN file : n \in DOMAIN file' /\ file'[n] = file[n]]_vars

\* the second Store, opened on the bucket of the closed first one, returned
\* struct{1} from a Get
C6_Witness ==
    /\ Len(dbs) = 2 /\ OpenStores = {2}
    /\ dbs[1].bucket = dbs[2].bucket
    /\ last.op = "Get" /\ last.err = "nil"
    /\ last.val = StructV(0) /\ last.out = StructV(1)

----------------------------------------------------------------------------
(* C7 *)

\* C7: at most one handle holds the file at any time; an Open while a handle
\* holds it is never blocked, returns ErrTimeout, creates no handle and
\* changes nothing else.
C7_Exclusion ==
    /\ [](Cardinality(Holders) <= 1)
    /\ [](\A t \in Threads :
            (th[t].pc = "idle" /\ Holders # {}) => ENABLED Open(t, "a"))
    /\ [][\A t \in Threads, n \in BucketNames :
            (Holders # {} /\ Open(t, n))
            => (last'.op = "Open" /\ last'.err = "ErrTimeout"
                /\ UNCHANGED <<file, dbs, th, ghost>>)]_vars

\* an Open returned ErrTimeout while a Store is open
C7_Witness ==
    /\ last.op = "Open" /\ last.err = "ErrTimeout"
    /\ Cardinality(OpenStores) = 1

----------------------------------------------------------------------------
(* C8 *)

\* C8: Get(k, nil) returns nil exactly when k is stored and ErrNotFound
\* exactly when it is not, whatever bytes are stored under k.
C8_ExistenceOnly ==
    (last.op = "Get" /\ last.val = Nil)
        => /\ last.err = (IF Present(last.pre) THEN "nil" ELSE "ErrNotFound")
           /\ last.out = Nil

\* Get(k, nil) returned nil for a key holding bytes that are no gob stream
C8_Witness ==
    /\ last.op = "Get" /\ last.val = Nil
    /\ last.pre = Raw /\ last.err = "nil"

----------------------------------------------------------------------------
(* C9 *)

\* C9: the empty string is a valid key: a Put of a supported value under it
\* returns no error, and a Get of it then returns the value.
C9_EmptyKey ==
    /\ (last.op = "Put" /\ last.key = <<>> /\ last.val \in Supported)
        => last.err = "nil"
    /\ (last.op = "Get" /\ last.key = <<>> /\ last.pre \in Supported
            /\ last.val = Zero(last.pre))
        => (last.err = "nil" /\ last.out = last.pre)

----------------------------------------------------------------------------
(* C10 *)

\* C10: Put is atomic (checked under SpecFault, where a commit may fail).
\* The function of a Put's transaction publishes nothing; the end of the
\* transaction either stores exactly the entry (k, encoding of V), leaving
\* every other entry as it was, or leaves the file unchanged; a Put that
\* returns an error has changed nothing; and a Get of k returning while a
\* Put(k, V) is inside its transaction observes the state before that Put.
C10_PutAtomic ==
    [][/\ (Returned("Put") /\ last'.err # "nil") => file' = file
       /\ \A t \in Threads :
            LET n == dbs[th[t].db].bucket
                k == th[t].key
            IN  /\ (th[t].pc = "idle" /\ th'[t].pc = "putTx") => file' = file
                /\ (th[t].pc = "putTx" /\ th'[t].pc = "idle")
                    => /\ last'.op = "Put"
                       /\ IF last'.err = "nil"
                          THEN /\ EntrySet(file'[n])
                                    = {e \in EntrySet(file[n]) : e.k # k}
                                        \cup {[k |-> k, v |-> GobEncode(th[t].val)]}
                               /\ DOMAIN file' = DOMAIN file
                               /\ \A m \in DOMAIN file \ {n} : file'[m] = file[m]
                          ELSE file' = file
                /\ (th[t].pc = "putTx" /\ Returned("Get") /\ last'.key = k)
                    => /\ last'.pre = th[t].pre
                       /\ ~Present(last'.pre) => last'.err = "ErrNotFound"
                       /\ (last'.pre \in Supported /\ last'.val = Zero(last'.pre))
                            => (last'.err = "nil" /\ last'.out = last'.pre)]_vars

\* a Put of struct{0} over struct{1} returned a commit error and the key
\* still yields struct{1}
C10_Witness ==
    /\ last.op = "Put" /\ last.err = "ErrIO"
    /\ last.pre = StructV(1) /\ last.val = StructV(0)
    /\ \E d \in OpenStores :
        /\ ghost[dbs[d].bucket][last.key] = StructV(1)
        /\ GetBody(Bucket(d), last.key, StructV(0))
            = [err |-> "nil", out |-> StructV(1)]

----------------------------------------------------------------------------
(* C11 *)

\* what the file holds for a key whose last committed mutation is g
Stored(g) == IF g = Raw THEN Garbage ELSE GobEncode(g)

\* the file is what the committed mutations, applied one after the other in
\* the order of their commits, leave
SerialOutcome ==
    \A n \in DOMAIN file :
        /\ \A i, j \in 1..Len(file[n]) : i < j => KeyLess(file[n][i].k, file[n][j].k)
        /\ \A k \in Keys :
            IF Present(ghost[n][k])
            THEN [k |-> k, v |-> Stored(ghost[n][k])] \in EntrySet(file[n])
            ELSE \A e \in EntrySet(file[n]) : e.k # k

Waiting(t) == th[t].pc \in {"putWait", "delWait"}
InWriteTx(t) == th[t].pc \in {"putTx", "delTx"}

\* C11: single writer (checked under SpecWriters).  At most one write
\* transaction of a handle is in flight; a writer waiting for db.rwlock cannot
\* proceed while another write transaction holds it, can proceed as soon as
\* it is free, and does get to run; and the file always equals the outcome of
\* the committed writes applied serially in commit order.
C11_SingleWriter ==
    /\ [](\A d \in 1..Len(dbs) : Cardinality(Writers(d)) <= 1)
    /\ [](\A t \in Threads : Waiting(t)
            => ((ENABLED (PutLock(t) \/ DeleteLock(t))) <=> Writers(th[t].db) = {}))
    /\ []SerialOutcome
    /\ \A t \in Threads : Waiting(t) ~> InWriteTx(t)

\* one goroutine is inside a Put's transaction on key <<1>> while the other
\* waits for the lock with a Put on key <<1, 1>>
C11_Witness ==
    /\ th["g1"].pc = "putTx" /\ th["g1"].key = <<1>> /\ th["g1"].err = "nil"
    /\ th["g2"].pc = "putWait" /\ th["g2"].key = <<1, 1>>
    /\ th["g1"].db = th["g2"].db

----------------------------------------------------------------------------
(* C12 *)

\* C12: Close releases the file handle and its lock.  Once Close has returned
\* on the store that held the path, no handle holds the file lock, and the
\* next Open of the path, by any goroutine, does not fail with a lock timeout:
\* with a bucket name it succeeds and hands out a Store that holds the lock
C12_CloseReleases ==
    /\ [](last.op = "Close" => Holders = {} /\ Flock(Holders) = "nil")
    /\ [][\A t \in Threads, n \in OneBucket :
            (last.op = "Close" /\ Open(t, n))
                => /\ last'.op = "Open"
                   /\ last'.err # "ErrTimeout"
                   /\ n # "" => /\ last'.err = "nil"
                                /\ OpenStores' = {Len(dbs')}
                                /\ Holders' = {Len(dbs')}]_vars

\* a second Store was opened on the path after the first was closed
C12_Witness ==
    /\ last.op = "Open" /\ last.err = "nil"
    /\ Len(dbs) = 2
    /\ dbs[1].store /\ ~dbs[1].opened
    /\ OpenStores = {2}

----------------------------------------------------------------------------
(* C13 *)

\* Seek lands on a successor: the bucket has no entry under key, and an entry
\* whose key sorts after it
OnSuccessor(b, key) ==
    /\ \A e \in EntrySet(b) : e.k # key
    /\ Seek(b, key) # 0

\* C13: exact-match seek.  When the key is absent and the cursor seek lands on
\* a key that sorts after it, Get returns ErrNotFound and leaves the
\* destination as it was, and Delete returns ErrNotFound and its transaction
\* leaves every bucket, the successor's entry included, unchanged.
C13_ExactMatch ==
    /\ [][\A d \in OpenStores :
            (Returned("Get") /\ OnSuccessor(Bucket(d), last'.key))
                => /\ last'.err = "ErrNotFound"
                   /\ last'.out = last'.val
                   /\ file' = file]_vars
    /\ [][\A t \in Threads :
            (th[t].pc = "delTx" /\ th'[t].pc = "idle"
                /\ OnSuccessor(file[dbs[th[t].db].bucket], th[t].key))
                => /\ last'.op = "Delete" /\ last'.key = th[t].key
                   /\ last'.err = "ErrNotFound"
                   /\ file' = file]_vars

\* a Get of <<1>> into a struct returned ErrNotFound and left the struct as it
\* was, while the bucket holds <<1, 1>> only
C13_Witness ==
    /\ last.op = "Get" /\ last.key = <<1>> /\ last.err = "ErrNotFound"
    /\ last.val = StructV(0) /\ last.out = StructV(0)
    /\ \E d \in OpenStores :
        Bucket(d) = <<[k |-> <<1, 1>>, v |-> GobEncode(StructV(1))]>>

----------------------------------------------------------------------------
(* C14 *)

\* C14: a failed Open holds nothing.  When Open has returned an error, the
\* only handles that hold the file lock are those of Stores that were handed
\* out, and with no such Store the lock is free, so that an Open with a bucket
\* name succeeds.
C14_FailedOpenHoldsNothing ==
    (last.op = "Open" /\ last.err # "nil")
        => /\ Holders \subseteq OpenStores
           /\ OpenStores = {} => Flock(Holders) = "nil"

----------------------------------------------------------------------------
(* C15 *)

\* C15: buckets are independent key spaces (checked under SpecBuckets).  The
\* end of a Put's or a Delete's transaction through a Store on one bucket
\* leaves every other bucket of the file exactly as it was, and so does the
\* Open of another bucket; a key that was never Put under the bucket of an
\* open Store is reported ErrNotFound by Get through it, whatever is stored
\* under that key in the other bucket.
C15_IndependentBuckets ==
    /\ [][\A t \in Threads :
            (th[t].pc \in {"putTx", "delTx"} /\ th'[t].pc = "idle")
                => /\ DOMAIN file' = DOMAIN file
                   /\ \A m \in DOMAIN file \ {dbs[th[t].db].bucket} :
                        file'[m] = file[m]]_vars
    /\ [][\A t \in Threads, n \in TwoBuckets :
            Open(t, n) => \A m \in DOMAIN file : file'[m] = file[m]]_vars
    /\ [](\A d \in OpenStores, k \in BucketKeys :
            ~Present(ghost[dbs[d].bucket][k])
                => GetBody(Bucket(d), k, StructV(0)) =
                        [err |-> "ErrNotFound", out |-> StructV(0)])
    /\ [](last.op = "Get" /\ ~Present(last.pre) => last.err = "ErrNotFound")

\* <<1>> was Put through a Store on "a"; through the Store opened later on
\* "b", where nothing was ever stored, a Get of <<1>> returned ErrNotFound,
\* and "a" still holds its entry
C15_Witness ==
    /\ Len(dbs) = 2 /\ dbs[1].bucket = "a" /\ dbs[2].bucket = "b"
    /\ OpenStores = {2}
    /\ ghost["a"][<<1>>] = StructV(1)
    /\ \A k \in Keys : ghost["b"][k] = Never
    /\ last.op = "Get" /\ last.key = <<1>> /\ last.err = "ErrNotFound"
    /\ file["a"] = <<[k |-> <<1>>, v |-> GobEncode(StructV(1))]>>
    /\ file["b"] = <<>>

----------------------------------------------------------------------------
(* C16 *)

\* C16: encoding failure on Put.  A Put of a non-nil value the encoder cannot
\* serialize returns the encoder's error as it is; the step that returns it
\* starts no write transaction and changes neither the file nor any handle, so
\* a value stored before under the key is still what Get returns.
C16_EncodeFailure ==
    /\ [](last.op = "Put" /\ last.val # Nil /\ last.val \notin Supported
            => last.err = "ErrEncode")
    /\ [][(Returned("Put") /\ last'.val = Chan)
            => /\ last'.err = "ErrEncode"
               /\ UNCHANGED <<file, dbs, th, ghost>>
               /\ \A d \in OpenStores :
                    GetBody(file'[dbs'[d].bucket], last'.key, Zero(last'.pre)) =
                        GetBody(Bucket(d), last'.key, Zero(last'.pre))]_vars

\* a Put of a channel returned the encoder's error for a key that holds a
\* struct, and a Get of the key still yields that struct
C16_Witness ==
    /\ last.op = "Put" /\ last.val = Chan /\ last.err = "ErrEncode"
    /\ last.key = <<1, 1>> /\ last.pre = StructV(1)
    /\ \E d \in OpenStores :
        GetBody(Bucket(d), last.key, StructV(0)) = [err |-> "nil", out |-> StructV(1)]

====
